---- MODULE Spec2Model ----
(***************************************************************************)
(* A model of the composition engine and playback scheduler of the         *)
(* ai-music-generator React version:                                       *)
(*   services/musicTheory.js        MusicTheory, RhythmPatterns            *)
(*   services/sharedAudioEngine.js  AudioEngine                            *)
(*   services/synthesis.js          EnhancedSynthesis, DrumSynthesis       *)
(*   components/SampleLibrary.jsx   playSample                             *)
(*                                                                         *)
(* Units.  Times are integers in milliseconds (the tempos of the model     *)
(* make every beat and sixteenth-note step a whole number of ms, and the   *)
(* same values are exact in binary floating point).  A value of            *)
(* Math.random() is an integer number of hundredths; a velocity is an      *)
(* integer number of ten-thousandths.  A frequency is kept as the number   *)
(* of semitones from A4 that noteToFrequency computes (the frequency is    *)
(* 440 * 2^(semis/12), positive whenever it is a number), or NaN.          *)
(***************************************************************************)
EXTENDS Integers, Sequences, FiniteSets, TLC

VARIABLES
    params,           \* the argument of the last generateSong call
    randomSource,     \* the random source (tape) of that call
    song,             \* what that call returned (NoSong before the first call)
    audioContext,     \* this.audioContext: "null", or the context's state
    isPlaying,        \* this.isPlaying
    currentSequence,  \* this.currentSequence
    activeSources,    \* this.activeSources: a set of source handles
    sources,          \* the sink: every buffer source created, by handle
    endQueue,         \* the sink: handles stopped by stop(), 'ended' event pending
    plays,            \* every playSong call: its song, its position, its timer
    clock,            \* the last reading of audioContext.currentTime (ms)
    lastStop,         \* the outcome of the last stop() call
    call,             \* a call of one function of the services: name, arguments
    result,           \* the outcome of that call
    library           \* SampleLibrary: playingId, its click handler, its timers

vars == <<params, randomSource, song, audioContext, isPlaying, currentSequence,
          activeSources, sources, endQueue, plays, clock, lastStop, call, result,
          library>>

callVars == <<call, result>>

engineVars == <<audioContext, isPlaying, currentSequence, activeSources,
                sources, endQueue, plays, clock, lastStop>>

(***************************************************************************)
(* Bounds of the model.                                                    *)
(***************************************************************************)
\* Longest requested song, in seconds.
MaxDuration == 4
\* Length of the cycle of values the random source hands out.
TapeLen == 2
\* playSong calls in one run.
MaxPlays == 2
\* Buffer sources the sink creates in one run.
MaxSources == 14

(***************************************************************************)
(* Sequence helpers (JavaScript arrays are 0-based).                       *)
(***************************************************************************)
At(s, i) == s[i + 1]

Min(a, b) == IF a < b THEN a ELSE b

Max(a, b) == IF a > b THEN a ELSE b

RECURSIVE Flatten(_)
Flatten(ss) == IF ss = <<>> THEN <<>> ELSE Head(ss) \o Flatten(Tail(ss))

RECURSIVE Repeat(_, _)
Repeat(s, n) == IF n <= 0 THEN <<>> ELSE s \o Repeat(s, n - 1)

Range(s) == {s[i] : i \in DOMAIN s}

RECURSIVE SumSeq(_)
SumSeq(s) == IF s = <<>> THEN 0 ELSE Head(s) + SumSeq(Tail(s))

(***************************************************************************)
(* The random source.  Math.random() is modelled as a tape: call number k  *)
(* (0-based, counted over one generateSong call) returns tape[k mod        *)
(* TapeLen].  The values, in hundredths, fall on each side of every        *)
(* threshold the code compares against (0.3, 0.5, 0.7) and in each third   *)
(* of [0,1) (Math.floor(random * 3)).                                      *)
(***************************************************************************)
RandVals == {0, 50, 90}

Tapes == [1..TapeLen -> RandVals]

Rand(tape, k) == tape[(k % TapeLen) + 1]

(***************************************************************************)
(* MusicTheory                                                             *)
(***************************************************************************)
ScaleTypes == {"major", "minor", "dorian", "mixolydian", "pentatonic"}

scales(scaleType) ==
    CASE scaleType = "major"      -> <<0, 2, 4, 5, 7, 9, 11>>
      [] scaleType = "minor"      -> <<0, 2, 3, 5, 7, 8, 10>>
      [] scaleType = "dorian"     -> <<0, 2, 3, 5, 7, 9, 10>>
      [] scaleType = "mixolydian" -> <<0, 2, 4, 5, 7, 9, 10>>
      [] scaleType = "pentatonic" -> <<0, 2, 4, 7, 9>>

KeyNames == {"C", "C#", "Db", "D", "D#", "Eb", "E", "F", "F#", "Gb", "G",
             "G#", "Ab", "A", "A#", "Bb", "B"}

noteNumbers(root) ==
    CASE root = "C" -> 0
      [] root \in {"C#", "Db"} -> 1
      [] root = "D" -> 2
      [] root \in {"D#", "Eb"} -> 3
      [] root = "E" -> 4
      [] root = "F" -> 5
      [] root \in {"F#", "Gb"} -> 6
      [] root = "G" -> 7
      [] root \in {"G#", "Ab"} -> 8
      [] root = "A" -> 9
      [] root \in {"A#", "Bb"} -> 10
      [] root = "B" -> 11

\* A getScale that does not reduce modulo 12.
getScaleUnwrapped(root, scaleType) ==
    LET t == scales(scaleType)
    IN  [i \in 1..Len(t) |-> noteNumbers(root) + t[i]]

\* getScale(root, scaleType), for a recognized root and scale type.
getScale(root, scaleType) ==
    LET t == scales(scaleType)
    IN  [i \in 1..Len(t) |-> (noteNumbers(root) + t[i]) % 12]

ProgressionTags == {"pop", "jazz", "blues", "modern", "ambient"}

progressions(tag) ==
    CASE tag = "pop"     -> <<0, 5, 3, 4>>
      [] tag = "jazz"    -> <<0, 3, 4, 0>>
      [] tag = "blues"   -> <<0, 0, 3, 0, 4, 3, 0, 4>>
      [] tag = "modern"  -> <<5, 3, 0, 4>>
      [] tag = "ambient" -> <<0, 2, 4, 1>>

\* generateChordProgression(scale, progressionType): the scale is not used.
generateChordProgression(scale, progressionType) ==
    IF progressionType \in ProgressionTags
    THEN progressions(progressionType)
    ELSE progressions("pop")

ChordTypes == {"triad", "seventh", "ninth", "sus2", "sus4"}

chordTypes(chordType) ==
    CASE chordType = "triad"   -> <<0, 2, 4>>
      [] chordType = "seventh" -> <<0, 2, 4, 6>>
      [] chordType = "ninth"   -> <<0, 2, 4, 6, 1>>
      [] chordType = "sus2"    -> <<0, 1, 4>>
      [] chordType = "sus4"    -> <<0, 3, 4>>

\* A JavaScript array read: undefined when the index is outside the array.
\* A note is [def |-> is it a number, n |-> the number].
Undefined == [def |-> FALSE, n |-> 0]

Lookup(arr, i) ==
    IF i >= 0 /\ i < Len(arr) THEN [def |-> TRUE, n |-> At(arr, i)] ELSE Undefined

\* A getChordNotes that does not wrap the degree around the scale.
getChordNotesUnwrapped(root, chordType, scale) ==
    LET intervals == IF chordType \in ChordTypes
                     THEN chordTypes(chordType) ELSE chordTypes("triad")
    IN  [j \in 1..Len(intervals) |-> Lookup(scale, root + intervals[j])]

\* getChordNotes(root, chordType, scale)
getChordNotes(root, chordType, scale) ==
    LET intervals == IF chordType \in ChordTypes
                     THEN chordTypes(chordType) ELSE chordTypes("triad")
    IN  [j \in 1..Len(intervals) |->
            Lookup(scale, (root + intervals[j]) % Len(scale))]

\* noteToFrequency(noteNumber, octave): semitones from A4, NaN for undefined.
NaN == [nan |-> TRUE, semis |-> 0]

\* a % b of JavaScript for b > 0: the remainder has the sign of a.
Rem(a, b) == IF a >= 0 THEN a % b ELSE -((-a) % b)

\* A noteToFrequency that takes the note to lie in the octave asked for.
noteToFrequencyFlat(note, octave) ==
    IF ~note.def THEN NaN
    ELSE [nan |-> FALSE, semis |-> (octave - 4) * 12 + (Rem(note.n, 12) - 9)]

noteToFrequency(note, octave) ==
    IF ~note.def THEN NaN
    ELSE LET noteInOctave == Rem(note.n, 12)
             octaveNumber == octave + (note.n \div 12)
         IN  [nan |-> FALSE,
              semis |-> (octaveNumber - 4) * 12 + (noteInOctave - 9)]

MelodyStyles == {"ascending", "descending", "balanced", "stepwise"}

\* How many Math.random() calls one call of the style's direction function makes.
DirectionCalls(style) == IF style = "stepwise" THEN 2 ELSE 1

\* styles[style](), with the random source at call k.
Direction(style, tape, k) ==
    CASE style = "ascending"  -> IF Rand(tape, k) > 30 THEN 1 ELSE 0
      [] style = "descending" -> IF Rand(tape, k) > 30 THEN -1 ELSE 0
      [] style = "stepwise"   ->
            IF Rand(tape, k) > 70
            THEN (IF Rand(tape, k + 1) > 50 THEN 2 ELSE -2)
            ELSE (IF Rand(tape, k + 1) > 50 THEN 1 ELSE -1)
      [] OTHER -> ((Rand(tape, k) * 3) \div 100) - 1

\* The walk of generateMelody: the indices pushed for i = 1 .. length - 1.
RECURSIVE MelodyWalk(_, _, _, _, _, _, _)
MelodyWalk(scaleLen, length, style, tape, k, i, currentNote) ==
    IF i >= length THEN <<>>
    ELSE LET direction == Direction(style, tape, k)
             next == Max(0, Min(scaleLen - 1, currentNote + direction))
         IN  <<next>> \o MelodyWalk(scaleLen, length, style, tape,
                                    k + DirectionCalls(style), i + 1, next)

\* A generateMelody whose unknown styles walk stepwise.
generateMelodyLeaping(scale, length, style, tape, k) ==
    LET fn    == IF style \in MelodyStyles THEN style ELSE "stepwise"
        start == Len(scale) \div 2
        idx   == <<start>> \o MelodyWalk(Len(scale), length, fn, tape, k, 1, start)
    IN  [i \in 1..Len(idx) |-> Lookup(scale, idx[i])]

\* generateMelody(scale, length, style), the random source at call k.
generateMelody(scale, length, style, tape, k) ==
    LET fn    == IF style \in MelodyStyles THEN style ELSE "balanced"
        start == Len(scale) \div 2
        idx   == <<start>> \o MelodyWalk(Len(scale), length, fn, tape, k, 1, start)
    IN  [i \in 1..Len(idx) |-> Lookup(scale, idx[i])]

\* The random calls generateMelody makes.
MelodyCalls(length, style) ==
    LET fn == IF style \in MelodyStyles THEN style ELSE "balanced"
    IN  IF length > 1 THEN (length - 1) * DirectionCalls(fn) ELSE 0

(***************************************************************************)
(* RhythmPatterns                                                          *)
(***************************************************************************)
DrumStyles == {"rock", "funk", "jazz", "electronic", "latin"}

patterns(style) ==
    CASE style = "rock" ->
            [kick  |-> <<1,0,0,0, 1,0,0,0, 1,0,0,0, 1,0,0,0>>,
             snare |-> <<0,0,0,0, 1,0,0,0, 0,0,0,0, 1,0,0,0>>,
             hihat |-> <<1,0,1,0, 1,0,1,0, 1,0,1,0, 1,0,1,0>>]
      [] style = "funk" ->
            [kick  |-> <<1,0,0,1, 0,0,1,0, 0,0,1,0, 0,0,0,0>>,
             snare |-> <<0,0,0,0, 1,0,0,1, 0,0,0,0, 1,0,0,0>>,
             hihat |-> <<1,1,0,1, 0,1,1,0, 1,1,0,1, 0,1,1,0>>]
      [] style = "jazz" ->
            [kick  |-> <<1,0,0,0, 0,0,1,0, 0,0,0,0, 1,0,0,0>>,
             snare |-> <<0,0,1,0, 0,0,0,0, 0,0,1,0, 0,0,0,0>>,
             hihat |-> <<1,0,1,1, 0,1,1,0, 1,0,1,1, 0,1,1,0>>]
      [] style = "electronic" ->
            [kick  |-> <<1,0,0,0, 1,0,0,0, 1,0,0,0, 1,0,0,0>>,
             snare |-> <<0,0,0,0, 1,0,0,0, 0,0,0,0, 1,0,0,0>>,
             hihat |-> <<0,1,0,1, 0,1,0,1, 0,1,0,1, 0,1,0,1>>]
      [] style = "latin" ->
            [kick  |-> <<1,0,0,1, 0,1,0,0, 1,0,0,1, 0,1,0,0>>,
             snare |-> <<0,0,1,0, 0,0,1,0, 0,0,1,0, 0,0,1,0>>,
             hihat |-> <<1,1,1,1, 1,1,1,1, 1,1,1,1, 1,1,1,1>>]

\* getDrumPattern(style, measures)
\* A getDrumPattern that returns the single-measure pattern always.
getDrumPatternSingle(style, measures) ==
    IF style \in DrumStyles THEN patterns(style) ELSE patterns("rock")

getDrumPattern(style, measures) ==
    LET pattern == IF style \in DrumStyles THEN patterns(style) ELSE patterns("rock")
    IN  IF measures > 1
        THEN [kick  |-> Repeat(pattern.kick, measures),
              snare |-> Repeat(pattern.snare, measures),
              hihat |-> Repeat(pattern.hihat, measures)]
        ELSE pattern

\* The downbeat loop of generateRhythm (lines 139-141): step i, a multiple of
\* 4, is a hit when Math.random() < 0.8; the loop makes one call per multiple.
Downbeats(length, tape) ==
    [e \in 1..length |->
        IF (e - 1) % 4 = 0 /\ Rand(tape, (e - 1) \div 4) < 80 THEN 1 ELSE 0]

\* The fill loop of generateRhythm (lines 144-155) from step i on, the random
\* source at call k.  A step that is no hit yet draws for the density when it
\* is even; when it is odd, or when that draw fails, it draws for the
\* syncopation.
RECURSIVE RhythmFill(_, _, _, _, _, _)
RhythmFill(rhythm, density, syncopation, tape, k, i) ==
    IF i >= Len(rhythm) THEN rhythm
    ELSE IF At(rhythm, i) # 0
    THEN RhythmFill(rhythm, density, syncopation, tape, k, i + 1)
    ELSE IF i % 2 = 0 /\ Rand(tape, k) < density
    THEN RhythmFill([rhythm EXCEPT ![i + 1] = 1], density, syncopation, tape,
                    k + 1, i + 1)
    ELSE LET k1 == IF i % 2 = 0 THEN k + 1 ELSE k
         IN  IF Rand(tape, k1) < syncopation
             THEN RhythmFill([rhythm EXCEPT ![i + 1] = 1], density, syncopation,
                             tape, k1 + 1, i + 1)
             ELSE RhythmFill(rhythm, density, syncopation, tape, k1 + 1, i + 1)

\* generateRhythm(length, density, syncopation), density and syncopation in
\* hundredths.
generateRhythm(length, density, syncopation, tape) ==
    RhythmFill(Downbeats(length, tape), density, syncopation, tape,
               (length + 3) \div 4, 0)

(***************************************************************************)
(* AudioEngine: composition.  Each track generator takes the random source *)
(* (the tape and the number k of calls made so far) and returns the track  *)
(* and the number of calls made after it.                                  *)
(***************************************************************************)
\* 0.3 + Math.random() * 0.2 and its like, in ten-thousandths.
Velocity(base, span, r) == base * 100 + r * span

NoteEvent(instrument, frequency, duration, velocity, startTime) ==
    [type |-> "note", instrument |-> instrument, frequency |-> frequency,
     duration |-> duration, velocity |-> velocity, startTime |-> startTime]

DrumEvent(instrument, velocity, startTime) ==
    [type |-> "drum", instrument |-> instrument, velocity |-> velocity,
     startTime |-> startTime]

\* Lines 111-133: per measure, beats 0 and 2, one event per chord note.
PianoEvents(scale, progression, measures, beatDuration, tape, k) ==
    LET chordDuration == beatDuration * 2
        perBeat    == Len(chordTypes("triad"))
        perMeasure == 2 * perBeat
    IN  [e \in 1..(measures * perMeasure) |->
            LET i          == e - 1
                measure    == i \div perMeasure
                beat       == 2 * ((i % perMeasure) \div perBeat)
                chordIndex == At(progression, measure % Len(progression))
                chordNotes == getChordNotes(chordIndex, "triad", scale)
                noteNumber == At(chordNotes, i % perBeat)
                startTime  == measure * beatDuration * 4 + beat * beatDuration
            IN  NoteEvent("piano", noteToFrequency(noteNumber, 4), chordDuration,
                          Velocity(30, 20, Rand(tape, k + i)), startTime)]

\* A piano generator that drops the notes whose random velocity is lowest.
generatePianoTrackSparse(scale, progression, measures, beatDuration, tape, k) ==
    LET all    == PianoEvents(scale, progression, measures, beatDuration, tape, k)
        events == SelectSeq(all, LAMBDA ev : ev.velocity > Velocity(30, 20, 0))
    IN  [track |-> [name |-> "Piano", instrument |-> "piano", events |-> events],
         k |-> k + Len(all)]

generatePianoTrack(scale, progression, measures, beatDuration, tape, k) ==
    LET events == PianoEvents(scale, progression, measures, beatDuration, tape, k)
    IN  [track |-> [name |-> "Piano", instrument |-> "piano", events |-> events],
         k |-> k + Len(events)]

\* Lines 146-166: beat 0 always, beat 2 when Math.random() > 0.3.
RECURSIVE BassEvents(_, _, _, _, _, _, _)
BassEvents(scale, progression, measures, beatDuration, tape, k, measure) ==
    IF measure >= measures THEN [events |-> <<>>, k |-> k]
    ELSE LET chordIndex == At(progression, measure % Len(progression))
             rootNote   == Lookup(scale, chordIndex)
             frequency  == noteToFrequency(rootNote, 2)
             base       == measure * beatDuration * 4
             first      == NoteEvent("bass", frequency, beatDuration,
                                     Velocity(60, 20, Rand(tape, k)), base)
             onTwo      == Rand(tape, k + 1) > 30
             second     == NoteEvent("bass", frequency, beatDuration,
                                     Velocity(60, 20, Rand(tape, k + 2)),
                                     base + 2 * beatDuration)
             rest       == BassEvents(scale, progression, measures, beatDuration,
                                      tape, IF onTwo THEN k + 3 ELSE k + 2,
                                      measure + 1)
         IN  [events |-> (IF onTwo THEN <<first, second>> ELSE <<first>>)
                            \o rest.events,
              k |-> rest.k]

generateBassTrack(scale, progression, measures, beatDuration, tape, k) ==
    LET r == BassEvents(scale, progression, measures, beatDuration, tape, k, 0)
    IN  [track |-> [name |-> "Bass", instrument |-> "bass", events |-> r.events],
         k |-> r.k]

drumSounds == <<"kick", "snare", "hihat">>

\* Lines 181-199: the (drum, measure, step) triples in loop order; step runs
\* over the whole array that generateSong passed in.
DrumLoop(pattern, measures) ==
    LET len == Len(pattern.kick)
    IN  [i \in 1..(Len(drumSounds) * measures * len) |->
            [drumType |-> At(drumSounds, (i - 1) \div (measures * len)),
             measure  |-> ((i - 1) % (measures * len)) \div len,
             step     |-> (i - 1) % len]]

DrumHit(pattern, it) == At(pattern[it.drumType], it.step) # 0

DrumEvents(pattern, measures, beatDuration, tape, k) ==
    LET stepDuration == beatDuration \div 4
        hits == SelectSeq(DrumLoop(pattern, measures),
                          LAMBDA it : DrumHit(pattern, it))
    IN  [e \in 1..Len(hits) |->
            DrumEvent(hits[e].drumType,
                      Velocity(70, 20, Rand(tape, k + e - 1)),
                      hits[e].measure * beatDuration * 4
                          + hits[e].step * stepDuration)]

generateDrumTrack(pattern, measures, beatDuration, tape, k) ==
    LET events == DrumEvents(pattern, measures, beatDuration, tape, k)
    IN  [track |-> [name |-> "Drums", instrument |-> "drums", events |-> events],
         k |-> k + Len(events)]

\* Lines 210-228: one event per melody note, velocity then duration drawn.
MelodyEvents(scale, measures, beatDuration, style, tape, k) ==
    LET melodyLength == measures * 4
        melody == generateMelody(scale, melodyLength, style, tape, k)
        k1     == k + MelodyCalls(melodyLength, style)
    IN  [e \in 1..Len(melody) |->
            LET i == e - 1
            IN  NoteEvent("electricpiano", noteToFrequency(melody[e], 5),
                          (beatDuration * (70 + (Rand(tape, k1 + 2 * i + 1) * 30) \div 100))
                              \div 100,
                          Velocity(40, 30, Rand(tape, k1 + 2 * i)),
                          i * beatDuration)]

generateMelodyTrack(scale, measures, beatDuration, style, tape, k) ==
    LET events == MelodyEvents(scale, measures, beatDuration, style, tape, k)
    IN  [track |-> [name |-> "Melody", instrument |-> "electricpiano",
                    events |-> events],
         k |-> k + MelodyCalls(measures * 4, style) + 2 * Len(events)]

\* Math.ceil(a / b) for a >= 0, b > 0.
CeilDiv(a, b) == (a + b - 1) \div b

\* Lines 68-70.
BeatDuration(p) == 60000 \div p.bpm

\* A measure count that rounds down.
TotalMeasuresFloor(p) == (p.duration * 1000) \div (BeatDuration(p) * 4)

TotalMeasures(p) == CeilDiv(p.duration * 1000, BeatDuration(p) * 4)

\* generateSong(params), the random source being `tape`.
generateSong(p, tape) ==
    LET beatDuration     == BeatDuration(p)
        totalMeasures    == TotalMeasures(p)
        scaleNotes       == getScale(p.key, p.scale)
        chordProgression == generateChordProgression(scaleNotes, p.genre)
        drumPattern      == getDrumPattern(p.genre, totalMeasures)
        piano  == generatePianoTrack(scaleNotes, chordProgression, totalMeasures,
                                     beatDuration, tape, 0)
        k1     == IF "piano" \in p.instruments THEN piano.k ELSE 0
        bass   == generateBassTrack(scaleNotes, chordProgression, totalMeasures,
                                    beatDuration, tape, k1)
        k2     == IF "bass" \in p.instruments THEN bass.k ELSE k1
        drums  == generateDrumTrack(drumPattern, totalMeasures, beatDuration,
                                    tape, k2)
        k3     == IF "drums" \in p.instruments THEN drums.k ELSE k2
        melody == generateMelodyTrack(scaleNotes, totalMeasures, beatDuration,
                                      p.genre, tape, k3)
    IN  [bpm |-> p.bpm,
         totalDuration |-> p.duration * 1000,
         measures |-> totalMeasures,
         tracks |->
            (IF "piano"  \in p.instruments THEN <<piano.track>>  ELSE <<>>) \o
            (IF "bass"   \in p.instruments THEN <<bass.track>>   ELSE <<>>) \o
            (IF "drums"  \in p.instruments THEN <<drums.track>>  ELSE <<>>) \o
            (IF "melody" \in p.instruments THEN <<melody.track>> ELSE <<>>)]

getAvailableGenres ==
    {"pop", "jazz", "blues", "modern", "ambient", "rock", "funk", "electronic", "latin"}

getAvailableKeys == {"C", "C#", "D", "D#", "E", "F", "F#", "G", "G#", "A", "A#", "B"}

getAvailableScales == ScaleTypes

getAvailableInstruments == {"piano", "bass", "drums", "melody", "pad"}

(***************************************************************************)
(* AudioEngine: playback.                                                  *)
(*                                                                         *)
(* The sink is the Web Audio context.  A buffer source is a record         *)
(*   [play, track, index : the event it renders (index into the play's     *)
(*    song), when : the time given to start(), volume : the gain, state]   *)
(* with state "started" (start(when) called), "stopped" (stop() called,    *)
(* its 'ended' event queued), "stopFailed" (stop() called and threw: the   *)
(* source plays on) or "ended" (onended has run).  A handle is the         *)
(* source's index in `sources`.  The field late is history, read by the    *)
(* properties only: the 'ended' event of the stopped source was delivered  *)
(* when sources scheduled after it were active.                            *)
(*                                                                         *)
(* A playSong call is a record [song, pc, readAt, startTime, timer,        *)
(* stopped] with pc "init" (suspended at `await this.initializeAudio()`),  *)
(* "failed" (the await threw: the promise playSong returned is rejected)   *)
(* or "scheduled" (lines 240-255 have run), readAt the value of            *)
(* audioContext.currentTime that line 243 read, timer "none", "armed" or   *)
(* "fired", and stopped (history: stop() was called after this call).      *)
(*                                                                         *)
(* lastStop is the outcome of stop() when the last step of the engine was  *)
(* a stop() call ("returned" or "threw"), else "none".                     *)
(***************************************************************************)
NoSong == [bpm |-> 0, totalDuration |-> 0, measures |-> 0, tracks |-> <<>>]

NoParams == [bpm |-> 0, key |-> "", scale |-> "", genre |-> "", duration |-> 0,
             instruments |-> {}]

\* One reading step of the sink clock, and the lead-in of line 243, in ms.
ClockStep == 1000

LeadIn == 100

\* Length in ms of the buffer each synthesis function returns
\* (Math.floor(duration * sampleRate) samples).
KickDuration == 150

SnareDuration == 100

HiHatDuration == 50

NoteInstruments == {"piano", "bass", "electricpiano", "pad"}

DrumInstruments == {"kick", "snare", "hihat"}

\* Whether scheduleEvent reaches createAudioBuffer and playBuffer for the event.
Schedulable(event) ==
    \/ event.type = "note" /\ event.instrument \in NoteInstruments
    \/ event.type = "drum" /\ event.instrument \in DrumInstruments

BufferDuration(event) ==
    CASE event.type = "note"       -> event.duration
      [] event.instrument = "kick"  -> KickDuration
      [] event.instrument = "snare" -> SnareDuration
      [] OTHER                      -> HiHatDuration

\* A scheduler that walks each track from its last event to its first.
EventRefsLastFirst(sequence) ==
    Flatten([t \in 1..Len(sequence.tracks) |->
                [i \in 1..Len(sequence.tracks[t].events) |->
                    [track |-> t,
                     index |-> Len(sequence.tracks[t].events) + 1 - i]]])

\* The (track, index) pairs of a song in the order of the loops of lines 246-250.
EventRefs(sequence) ==
    Flatten([t \in 1..Len(sequence.tracks) |->
                [i \in 1..Len(sequence.tracks[t].events) |->
                    [track |-> t, index |-> i]]])

EventOf(sequence, ref) == sequence.tracks[ref.track].events[ref.index]

\* scheduleEvent(event, startTime) for every event: the sources that playBuffer
\* creates, in order.  eventTime = startTime + event.startTime.
ScheduledSources(p, sequence, startTime) ==
    LET refs == SelectSeq(EventRefs(sequence),
                          LAMBDA r : Schedulable(EventOf(sequence, r)))
    IN  [i \in 1..Len(refs) |->
            [play   |-> p,
             track  |-> refs[i].track,
             index  |-> refs[i].index,
             when   |-> startTime + EventOf(sequence, refs[i]).startTime,
             volume |-> EventOf(sequence, refs[i]).velocity,
             state  |-> "started",
             late   |-> FALSE]]

EndTime(h) ==
    sources[h].when
        + BufferDuration(EventOf(plays[sources[h].play].song,
                                 [track |-> sources[h].track,
                                  index |-> sources[h].index]))

NoTape == [i \in 1..TapeLen |-> 0]

EngineInit ==
    /\ song = NoSong
    /\ audioContext = "null"
    /\ isPlaying = FALSE
    /\ currentSequence = NoSong
    /\ activeSources = {}
    /\ sources = <<>>
    /\ endQueue = <<>>
    /\ plays = <<>>
    /\ clock = 0
    /\ lastStop = "none"

\* No call of a single function is under way.
NoCall == [fn |-> "none"]

\* The SampleLibrary component after its first render: useState(null), no
\* click handled (clicks counts them), no timer armed.
NoLibrary ==
    [playingId |-> "null", pc |-> "idle", clicked |-> "null", clicks |-> 0,
     timers |-> <<>>]

\* The outcome of a call: "pending" before it ends, then "returned" with
\* the value, or "threw" with the name of the error.
Pending == [outcome |-> "pending", error |-> "", value |-> <<>>]

Returned(v) == [outcome |-> "returned", error |-> "", value |-> v]

Threw(e) == [outcome |-> "threw", error |-> e, value |-> <<>>]

Init ==
    /\ params = NoParams
    /\ randomSource = NoTape
    /\ EngineInit
    /\ call = NoCall
    /\ result = Pending
    /\ library = NoLibrary

\* The parameters the scheduler's runs compose songs from.
SchedInstruments == {{"bass"}, {"drums"}, {"melody"}, {"pad"}, {"piano"}}

SchedParams ==
    [bpm : {120}, key : {"C"}, scale : {"major"}, genre : {"pop"},
     duration : {2, 3},
     instruments : SchedInstruments]

\* The random sources of the scheduler's runs: the constant ones.
SchedTapes == {t \in Tapes : \A i \in DOMAIN t : t[i] = t[1]}

\* The UI calls generateSong(params).  In a run of the scheduler the songs are
\* composed before playback starts: every playSong call is given the last one.
GenerateSong ==
    /\ plays = <<>>
    /\ \E p \in SchedParams, t \in SchedTapes :
          /\ params' = p
          /\ randomSource' = t
          /\ song' = generateSong(p, t)
    /\ UNCHANGED engineVars
    /\ UNCHANGED callVars
    /\ UNCHANGED library

\* A playSong that starts the song at the clock reading, without lead-in.
PlayBodyNoLeadIn(p, sequence, now) ==
    LET new == ScheduledSources(p, sequence, now)
    IN  /\ isPlaying' = TRUE
        /\ currentSequence' = sequence
        /\ sources' = sources \o new
        /\ activeSources' = activeSources \cup (Len(sources) + 1 .. Len(sources) + Len(new))
        /\ clock' = now
        /\ plays' = [q \in 1..Max(p, Len(plays)) |->
                        IF q = p
                        THEN [song |-> sequence, pc |-> "scheduled",
                              readAt |-> now, startTime |-> now,
                              timer |-> "armed", stopped |-> FALSE]
                        ELSE plays[q]]
        /\ lastStop' = "none"

\* A playSong that marks the song it was given as played: it sets the
\* song's totalDuration to 0 once the timer is armed.
PlayBodyConsuming(p, sequence, now) ==
    LET startTime == now + LeadIn
        new       == ScheduledSources(p, sequence, startTime)
    IN  /\ isPlaying' = TRUE
        /\ currentSequence' = sequence
        /\ sources' = sources \o new
        /\ activeSources' = activeSources \cup (Len(sources) + 1 .. Len(sources) + Len(new))
        /\ clock' = now
        /\ plays' = [q \in 1..Max(p, Len(plays)) |->
                        IF q = p
                        THEN [song |-> [sequence EXCEPT !.totalDuration = 0],
                              pc |-> "scheduled",
                              readAt |-> now, startTime |-> startTime,
                              timer |-> "armed", stopped |-> FALSE]
                        ELSE plays[q]]
        /\ lastStop' = "none"

\* Lines 240-255 of playSong, for call p, the sink clock reading `now`.
PlayBody(p, sequence, now) ==
    LET startTime == now + LeadIn
        new       == ScheduledSources(p, sequence, startTime)
    IN  /\ isPlaying' = TRUE
        /\ currentSequence' = sequence
        /\ sources' = sources \o new
        /\ activeSources' = activeSources \cup (Len(sources) + 1 .. Len(sources) + Len(new))
        /\ clock' = now
        /\ plays' = [q \in 1..Max(p, Len(plays)) |->
                        IF q = p
                        THEN [song |-> sequence, pc |-> "scheduled",
                              readAt |-> now, startTime |-> startTime,
                              timer |-> "armed", stopped |-> FALSE]
                        ELSE plays[q]]
        /\ lastStop' = "none"

\* audioContext.currentTime when line 243 reads it.  A context's clock starts
\* at 0 and stands still while the context is suspended, so the first play
\* reads 0; a later play reads the same value or a later one.
ClockReadings ==
    IF \A q \in DOMAIN plays : plays[q].pc # "scheduled"
    THEN {0}
    ELSE {clock, clock + ClockStep}

PlayRecord(sequence, pc) ==
    [song |-> sequence, pc |-> pc, readAt |-> 0, startTime |-> 0,
     timer |-> "none", stopped |-> FALSE]

\* The sources created so far and those the suspended playSong calls will create.
SourcesCommitted ==
    Len(sources)
        + SumSeq([q \in DOMAIN plays |->
                    IF plays[q].pc = "init" THEN Len(EventRefs(plays[q].song)) ELSE 0])

\* A playSong that sets isPlaying before it awaits initializeAudio.
PlaySongEager ==
    /\ Len(plays) < MaxPlays
    /\ song # NoSong
    /\ SourcesCommitted + Len(EventRefs(song)) <= MaxSources
    /\ LET p == Len(plays) + 1
       IN  \/ /\ audioContext = "null"
              /\ plays' = Append(plays, PlayRecord(song, "failed"))
              /\ lastStop' = "none"
              /\ UNCHANGED <<audioContext, isPlaying, currentSequence,
                             activeSources, sources, clock>>
           \/ /\ audioContext \in {"null", "suspended"}
              /\ audioContext' = "suspended"
              /\ plays' = Append(plays, PlayRecord(song, "init"))
              /\ lastStop' = "none"
              /\ isPlaying' = TRUE
              /\ UNCHANGED <<currentSequence, activeSources, sources, clock>>
           \/ /\ audioContext \in {"null", "running"}
              /\ audioContext' = "running"
              /\ \E now \in ClockReadings :
                    PlayBody(p, song, now)
    /\ UNCHANGED <<library, call, result, params, randomSource, song, endQueue>>

\* playSong(song) is called and runs to its first suspension or to its end.
\* initializeAudio creates the context when there is none: the constructor
\* throws where the platform has no audio, else the context starts suspended
\* or running.  A suspended context is resumed and playSong waits for it.
PlaySong ==
    /\ Len(plays) < MaxPlays
    /\ song # NoSong
    /\ SourcesCommitted + Len(EventRefs(song)) <= MaxSources
    /\ LET p == Len(plays) + 1
       IN  \/ /\ audioContext = "null"
              /\ plays' = Append(plays, PlayRecord(song, "failed"))
              /\ lastStop' = "none"
              /\ UNCHANGED <<audioContext, isPlaying, currentSequence,
                             activeSources, sources, clock>>
           \/ /\ audioContext \in {"null", "suspended"}
              /\ audioContext' = "suspended"
              /\ plays' = Append(plays, PlayRecord(song, "init"))
              /\ lastStop' = "none"
              /\ UNCHANGED <<isPlaying, currentSequence, activeSources,
                             sources, clock>>
           \/ /\ audioContext \in {"null", "running"}
              /\ audioContext' = "running"
              /\ \E now \in ClockReadings :
                    PlayBody(p, song, now)
    /\ UNCHANGED <<library, call, result, params, randomSource, song, endQueue>>

\* The play calls waiting for the context to resume, oldest first.
Awaiting == {p \in DOMAIN plays : plays[p].pc = "init"}

FirstAwaiting(p) == p \in Awaiting /\ \A q \in Awaiting : p <= q

\* audioContext.resume() resolves: playSong continues after its await.
ResumeDone(p) ==
    /\ FirstAwaiting(p)
    /\ audioContext' = "running"
    /\ \E now \in ClockReadings :
          PlayBody(p, plays[p].song, now)
    /\ UNCHANGED <<library, call, result, params, randomSource, song, endQueue>>

\* audioContext.resume() rejects: initializeAudio and playSong throw.
ResumeFail(p) ==
    /\ FirstAwaiting(p)
    /\ audioContext = "suspended"
    /\ plays' = [plays EXCEPT ![p].pc = "failed"]
    /\ lastStop' = "none"
    /\ UNCHANGED <<library, call, result, params, randomSource, song, audioContext, isPlaying,
                   currentSequence, activeSources, sources, endQueue, clock>>

\* The setTimeout callback of lines 253-255.  Timers of equal or shorter delay
\* armed earlier fire first.
TimerFire(p) ==
    /\ p \in DOMAIN plays
    /\ plays[p].timer = "armed"
    /\ \A q \in 1..(p - 1) :
          ~(/\ plays[q].timer = "armed"
            /\ plays[q].song.totalDuration <= plays[p].song.totalDuration)
    /\ isPlaying' = FALSE
    /\ plays' = [plays EXCEPT ![p].timer = "fired"]
    /\ lastStop' = "none"
    /\ UNCHANGED <<library, call, result, params, randomSource, song, audioContext, currentSequence,
                   activeSources, sources, endQueue, clock>>

\* An end callback that clears the whole active set.
onendedClears(h, active) == {}

\* source.onended (lines 49-51) for handle h: the active set it leaves.
onended(h, active) == active \ {h}

RECURSIVE onendedAll(_, _)
onendedAll(hs, active) ==
    IF hs = <<>> THEN active
    ELSE onendedAll(Tail(hs), onended(Head(hs), active))

\* The states of a source that is playing or will play.
Sounding == {"started", "stopFailed"}

\* A source plays to its end: the sink ends sources in the order of their end
\* times, and runs onended.
SourceEnds(h) ==
    /\ h \in DOMAIN sources
    /\ sources[h].state \in Sounding
    /\ \A g \in DOMAIN sources :
          sources[g].state \in Sounding => EndTime(h) <= EndTime(g)
    /\ sources' = [sources EXCEPT ![h].state = "ended"]
    /\ activeSources' = onended(h, activeSources)
    /\ lastStop' = "none"
    /\ UNCHANGED <<library, call, result, params, randomSource, song, audioContext, isPlaying,
                   currentSequence, endQueue, plays, clock>>

\* The 'ended' events of the sources that stop() stopped are delivered: the
\* sink queued them together and their onended callbacks run back to back.
StoppedSourcesEnd ==
    /\ endQueue # <<>>
    /\ sources' = [h \in DOMAIN sources |->
                      IF h \in Range(endQueue)
                      THEN [sources[h] EXCEPT
                               !.state = "ended",
                               !.late = \E g \in activeSources : g > h]
                      ELSE sources[h]]
    /\ activeSources' = onendedAll(endQueue, activeSources)
    /\ endQueue' = <<>>
    /\ lastStop' = "none"
    /\ UNCHANGED <<library, call, result, params, randomSource, song, audioContext, isPlaying,
                   currentSequence, plays, clock>>

\* The handles of a set in the order the Set iterates them (insertion order).
RECURSIVE InOrder(_)
InOrder(S) ==
    IF S = {} THEN <<>>
    ELSE LET h == CHOOSE x \in S : \A y \in S : x <= y
         IN  <<h>> \o InOrder(S \ {h})

\* Which source.stop() calls of one stop() may throw: none or all.
ThrowChoices(S) == {{}, S}

\* A stop() without the try/catch: the first source.stop() that throws ends
\* the forEach and the call, before the set is cleared.
StopWithUncaught(throwing) ==
    LET first   == IF throwing = {} THEN 0
                   ELSE CHOOSE x \in throwing : \A y \in throwing : x <= y
        reached == IF throwing = {} THEN activeSources
                   ELSE {h \in activeSources : h < first}
        stopped == {h \in reached : sources[h].state = "started"}
    IN  /\ isPlaying' = FALSE
        /\ sources' = [h \in DOMAIN sources |->
                          IF h \in stopped
                          THEN [sources[h] EXCEPT !.state = "stopped"]
                          ELSE sources[h]]
        /\ endQueue' = endQueue \o InOrder(stopped)
        /\ activeSources' = IF throwing = {} THEN {} ELSE activeSources
        /\ lastStop' = IF throwing = {} THEN "returned" ELSE "threw"

\* stop() (lines 326-340); `throwing` are the handles whose stop() throws,
\* which the catch swallows.
StopWith(throwing) ==
    LET stopped == {h \in activeSources \ throwing : sources[h].state = "started"}
    IN  /\ isPlaying' = FALSE
        /\ sources' = [h \in DOMAIN sources |->
                          IF h \in activeSources
                          THEN [sources[h] EXCEPT
                                   !.state = IF h \in stopped THEN "stopped"
                                             ELSE IF h \in throwing THEN "stopFailed"
                                             ELSE @]
                          ELSE sources[h]]
        /\ endQueue' = endQueue \o InOrder(stopped)
        /\ activeSources' = {}
        /\ lastStop' = "returned"

Stop ==
    /\ \E throwing \in ThrowChoices(activeSources) : StopWith(throwing)
    /\ plays' = [q \in DOMAIN plays |-> [plays[q] EXCEPT !.stopped = TRUE]]
    /\ UNCHANGED <<library, call, result, params, randomSource, song, audioContext, currentSequence,
                   clock>>

Next ==
    \/ GenerateSong
    \/ PlaySong
    \/ \E p \in DOMAIN plays : ResumeDone(p)
    \/ \E p \in DOMAIN plays : ResumeFail(p)
    \/ \E p \in DOMAIN plays : TimerFire(p)
    \/ \E h \in DOMAIN sources : SourceEnds(h)
    \/ StoppedSourcesEnd
    \/ Stop

Spec == Init /\ [][Next]_vars

(***************************************************************************)
(* SampleLibrary.  playSample(sampleId) is the click handler of a sample   *)
(* card.  It runs in two steps of the model, ClickSample (lines 105-113)   *)
(* and StartSample (lines 115-142), with nothing in between: its awaits    *)
(* are on promises that are settled already (the context is created in    *)
(* the click, a user gesture, and is running), so the handler and its      *)
(* continuations end before the next click or timer is handled.            *)
(*                                                                         *)
(* library.timers holds one record per timer of line 135, [id, start, due, *)
(* state]; a sample that started is the playSong call of the same index.   *)
(* The clock is the time of the last click or timer.                       *)
(***************************************************************************)
\* Sample cards of the model, with their ids in sampleData.
SampleIds == {"electronic-happy", "rock-sad"}

\* Seconds a sample lasts in the model (params.duration of the sample).
SampleSeconds == 2

\* sample.params, scaled down: one tempo, one instrument, a short duration.
sampleData(sampleId) ==
    [bpm |-> 120, key |-> "C", scale |-> "minor",
     genre |-> IF sampleId = "rock-sad" THEN "rock" ELSE "electronic",
     duration |-> SampleSeconds, instruments |-> {"bass"}]

\* Clicks on sample cards in one run.
MaxClicks == 3

ArmedTimers == {c \in DOMAIN library.timers : library.timers[c].state = "armed"}

\* When a click can happen: now or one step later, and not after a timer
\* that is due.  The clock is the context's and starts when it is created.
ClickTimes ==
    IF audioContext = "null" THEN {clock}
    ELSE {t \in {clock, clock + ClockStep} :
             \A c \in ArmedTimers : t <= library.timers[c].due}

\* Lines 105-113: stop the engine when playingId is set; when the card
\* clicked is the one playing, reset playingId and return.
ClickSample(sampleId) ==
    /\ library.pc = "idle"
    /\ library.clicks < MaxClicks
    /\ \E t \in ClickTimes : clock' = t
    /\ IF library.playingId # "null"
       THEN /\ StopWith({})
            /\ plays' = [q \in DOMAIN plays |-> [plays[q] EXCEPT !.stopped = TRUE]]
       ELSE /\ lastStop' = "none"
            /\ UNCHANGED <<isPlaying, sources, endQueue, activeSources, plays>>
    /\ library' = IF library.playingId = sampleId
                  THEN [library EXCEPT !.playingId = "null", !.clicked = sampleId,
                                       !.clicks = @ + 1]
                  ELSE [library EXCEPT !.pc = "starting", !.clicked = sampleId,
                                       !.clicks = @ + 1]
    /\ UNCHANGED <<call, result, params, randomSource, song, audioContext,
                   currentSequence>>

\* Lines 115-142: setPlayingId(sampleId), initializeAudio, generateSong,
\* playSong, and the timer of line 135; when the context cannot be created
\* the catch resets playingId.
StartSample ==
    /\ library.pc = "starting"
    /\ \/ /\ audioContext = "null"
          /\ library' = [library EXCEPT !.pc = "idle", !.playingId = "null"]
          /\ lastStop' = "none"
          /\ UNCHANGED <<params, song, audioContext, isPlaying, currentSequence,
                         activeSources, sources, plays, clock>>
       \/ /\ audioContext \in {"null", "running"}
          /\ audioContext' = "running"
          /\ params' = sampleData(library.clicked)
          /\ song' = generateSong(sampleData(library.clicked), randomSource)
          /\ PlayBody(Len(plays) + 1,
                      generateSong(sampleData(library.clicked), randomSource),
                      clock)
          /\ library' =
                [library EXCEPT
                    !.pc = "idle",
                    !.playingId = library.clicked,
                    !.timers = Append(@, [id    |-> library.clicked,
                                          start |-> clock,
                                          due   |-> clock + sampleData(library.clicked).duration * 1000,
                                          state |-> "armed"])]
    /\ UNCHANGED <<call, result, randomSource, endQueue>>

\* The timer callback of lines 135-137: setPlayingId(null).  Timers fire in
\* the order they are due.
SampleTimerFire(c) ==
    /\ library.pc = "idle"
    /\ c \in ArmedTimers
    /\ \A d \in ArmedTimers : library.timers[c].due <= library.timers[d].due
    /\ library' = [library EXCEPT !.playingId = "null",
                                  !.timers[c].state = "fired"]
    /\ clock' = Max(clock, library.timers[c].due)
    /\ lastStop' = "none"
    /\ UNCHANGED <<call, result, params, randomSource, song, audioContext,
                   isPlaying, currentSequence, activeSources, sources, endQueue,
                   plays>>

InitLibrary ==
    /\ params = NoParams
    /\ randomSource = NoTape
    /\ EngineInit
    /\ call = NoCall
    /\ result = Pending
    /\ library = NoLibrary

\* The clicks and timers of the component, and between two handlers the
\* callbacks of the engine.
NextLibrary ==
    \/ \E sampleId \in SampleIds : ClickSample(sampleId)
    \/ StartSample
    \/ \E c \in DOMAIN library.timers : SampleTimerFire(c)
    \/ \E p \in DOMAIN plays : library.pc = "idle" /\ TimerFire(p)
    \/ \E h \in DOMAIN sources : library.pc = "idle" /\ SourceEnds(h)
    \/ library.pc = "idle" /\ StoppedSourcesEnd

SpecLibrary == InitLibrary /\ [][NextLibrary]_vars

\* Sample d is playing at the time `at`: it started, no click has stopped
\* the engine since, and its duration is not over.
SamplePlaying(d, at) ==
    /\ d \in DOMAIN library.timers
    /\ ~plays[d].stopped
    /\ at < library.timers[d].due

\* The step handles a click on the card of sampleId.
ClickOn(sampleId) ==
    /\ library'.clicks = library.clicks + 1
    /\ library'.clicked = sampleId

\* The timer of sample c fires in the step and resets playingId.
SampleTimerResets(c) ==
    /\ library.timers[c].state = "armed"
    /\ library'.timers[c].state = "fired"
    /\ library.playingId # "null"

\* C27: for any sequence of clicks on sample cards, the auto-stop timer armed
\* when one sample was started never resets playingId while a later-started
\* sample is within its duration, so a click on the sample that is playing
\* always stops the engine.
C27_OnlyOwnTimerResetsPlayingId ==
    /\ [][\A c \in DOMAIN library.timers :
             SampleTimerResets(c)
                 => ~\E d \in DOMAIN library.timers : d > c /\ SamplePlaying(d, clock')]_vars
    /\ [][\A d \in DOMAIN library.timers :
             (ClickOn(library.timers[d].id) /\ SamplePlaying(d, clock')
                  /\ d = Len(library.timers))
                 => lastStop' = "returned"]_vars

(***************************************************************************)
(* Composition alone: generateSong applied once to parameters and a random *)
(* source drawn from bounded sets.                                         *)
(***************************************************************************)
\* Tempos whose beat and sixteenth-note step are whole numbers of ms.
Tempos == {60, 120}

ComposeKeys == {"C", "A"}

\* The recognized genre tags and one that is not.
ComposeGenres == getAvailableGenres \cup {"classical"}

ComposeInstruments ==
    {{}, {"pad"}, {"piano"}, {"bass"}, {"drums"}, {"melody"},
     {"piano", "bass", "drums", "melody"}}

ComposeParams ==
    [bpm : Tempos, key : ComposeKeys, scale : ScaleTypes, genre : ComposeGenres,
     duration : 1..MaxDuration, instruments : ComposeInstruments]

InitCompose ==
    /\ params \in ComposeParams
    /\ randomSource \in Tapes
    /\ EngineInit
    /\ call = NoCall
    /\ result = Pending
    /\ library = NoLibrary

Compose ==
    /\ song = NoSong
    /\ song' = generateSong(params, randomSource)
    /\ UNCHANGED <<params, randomSource>>
    /\ UNCHANGED engineVars
    /\ UNCHANGED callVars
    /\ UNCHANGED library

NextCompose == Compose

SpecCompose == InitCompose /\ [][NextCompose]_vars

(***************************************************************************)
(* Properties of composition, checked under SpecCompose.                   *)
(***************************************************************************)
Composed == song # NoSong

Tracks == Range(song.tracks)

Count(s) == Cardinality({i \in DOMAIN s : s[i] # 0})

\* H: the hits of the genre's single-measure kick, snare and hihat patterns.
PatternHits(genre) ==
    LET pattern == patterns(IF genre \in DrumStyles THEN genre ELSE "rock")
    IN  Count(pattern.kick) + Count(pattern.snare) + Count(pattern.hihat)

MeasureDuration == BeatDuration(params) * 4

\* C1: with drums requested, the drums track has exactly H * measureCount
\* events, H the number of hits of the genre's single-measure patterns.
C1_DrumCountIsHitsTimesMeasures ==
    Composed =>
        \A t \in Tracks :
            t.name = "Drums" =>
                Len(t.events) = PatternHits(params.genre) * song.measures

\* C2: every event of every track of a composed song starts in
\* [0, measureCount * measureDuration).
C2_StartTimesInsideSong ==
    Composed =>
        \A t \in Tracks : \A i \in DOMAIN t.events :
            /\ t.events[i].startTime >= 0
            /\ t.events[i].startTime < song.measures * MeasureDuration

\* The events of a list are in non-decreasing startTime order.
NonDecreasing(events) ==
    \A i \in 1..(Len(events) - 1) :
        events[i].startTime <= events[i + 1].startTime

NoteTracks == {"Piano", "Bass", "Melody"}

\* The piano, bass and melody tracks of a composed song are listed in
\* non-decreasing startTime order (the composition half of C3, over the
\* parameters of SpecCompose).
NoteTracksNonDecreasing ==
    Composed =>
        \A t \in Tracks : t.name \in NoteTracks => NonDecreasing(t.events)

\* C4: every note event of the piano, bass and melody tracks has a defined
\* frequency: no scale lookup behind it was out of range.
C4_FrequenciesDefined ==
    Composed =>
        \A t \in Tracks : \A i \in DOMAIN t.events :
            t.events[i].type = "note" => ~t.events[i].frequency.nan

\* C5: a song composed for a non-empty instrument set drawn from
\* piano/bass/drums/melody/pad has a non-empty track list.
C5_TracksNotEmpty ==
    (Composed /\ params.instruments # {}
              /\ params.instruments \subseteq getAvailableInstruments)
        => Len(song.tracks) > 0

\* What the random source cannot change in a track: everything but the
\* velocities in piano and drums; in melody also the pitches and durations;
\* in bass only the events on beat 0 are kept, without their velocities.
Shape(track, measureDuration) ==
    LET kept == IF track.name = "Bass"
                THEN SelectSeq(track.events,
                               LAMBDA e : e.startTime % measureDuration = 0)
                ELSE track.events
    IN  [name |-> track.name, instrument |-> track.instrument,
         events |->
            [i \in DOMAIN kept |->
                IF track.name = "Melody"
                THEN [type |-> kept[i].type, instrument |-> kept[i].instrument,
                      startTime |-> kept[i].startTime]
                ELSE [kept[i] EXCEPT !.velocity = 0]]]

SongShape(sng, measureDuration) ==
    [bpm |-> sng.bpm, totalDuration |-> sng.totalDuration,
     measures |-> sng.measures,
     tracks |-> [t \in DOMAIN sng.tracks |-> Shape(sng.tracks[t], measureDuration)]]

\* The sequence of startTimes of a track.
StartTimes(track) == [i \in DOMAIN track.events |-> track.events[i].startTime]

\* C11: two runs of generateSong with the same params and any two random
\* sources give piano, drums and melody tracks with the same event count
\* and the same sequence of startTimes and bass tracks with the same beat-0
\* events; only velocities, beat-2 bass events, melody pitches and melody
\* durations differ.  Every run is compared with the run on the same params
\* whose random source returns 0 always, so any two runs agree.
C11_RandomSourceChangesNoShape ==
    Composed =>
        LET other == generateSong(params, NoTape)
        IN  /\ SongShape(song, MeasureDuration) = SongShape(other, MeasureDuration)
            /\ \A i \in DOMAIN song.tracks :
                  song.tracks[i].name # "Bass" =>
                      StartTimes(song.tracks[i]) = StartTimes(other.tracks[i])

\* A song of four tracks whose bass track has more events than under the
\* random source that returns 0 always.
C11_OtherRandomSourceDiffers ==
    /\ Composed
    /\ Len(song.tracks) = 4
    /\ \E i \in DOMAIN song.tracks :
          /\ song.tracks[i].name = "Bass"
          /\ Len(song.tracks[i].events)
                > Len(generateSong(params, NoTape).tracks[i].events)

\* C12: generateSong with an empty instrument set returns a song with zero
\* tracks, totalDuration the requested duration, and measures the least
\* whole number of measures of 4 * 60 / bpm seconds that cover the duration.
C12_EmptyInstrumentSet ==
    (Composed /\ params.instruments = {}) =>
        /\ song.tracks = <<>>
        /\ song.totalDuration = params.duration * 1000
        /\ song.measures * 240000 >= params.duration * 1000 * params.bpm
        /\ (song.measures - 1) * 240000 < params.duration * 1000 * params.bpm

\* A song for no instruments whose duration ends inside its last measure.
C12_EmptySongRoundedUp ==
    /\ Composed
    /\ params.instruments = {}
    /\ song.measures * MeasureDuration > params.duration * 1000

\* The scale, the progression and the beat that generateSong computes from
\* the params.
ScaleNotes == getScale(params.key, params.scale)

ChordProgression == generateChordProgression(ScaleNotes, params.genre)

Beat == BeatDuration(params)

\* The events of a track that start at time `at`.
EventsAt(track, at) == {i \in DOMAIN track.events : track.events[i].startTime = at}

\* C23: the piano track holds, for each measure m, exactly one chord event
\* at beat 0 and one at beat 2 (startTimes m * measureDuration and
\* m * measureDuration + 2 * beatDuration), each lasting 2 beats:
\* 2 * measureCount events in total.
C23_PianoTwoChordEventsPerMeasure ==
    Composed =>
        \A t \in Tracks :
            t.name = "Piano" =>
                /\ Len(t.events) = 2 * song.measures
                /\ \A m \in 0..(song.measures - 1) :
                      /\ Cardinality(EventsAt(t, m * MeasureDuration)) = 1
                      /\ Cardinality(EventsAt(t, m * MeasureDuration + 2 * Beat)) = 1
                /\ \A i \in DOMAIN t.events : t.events[i].duration = 2 * Beat

\* The frequency of pitch class pc at the octave.
PitchAt(pc, octave) == [nan |-> FALSE, semis |-> (octave - 4) * 12 + (pc - 9)]

\* C24: the bass track holds, for each measure m, exactly one event on beat
\* 0, at most one on beat 2 and none on beats 1 and 3; every bass event lasts
\* one beat and has the pitch scale[progression[m mod progression.length]]
\* at octave 2; the event count lies between measureCount and
\* 2 * measureCount.
C24_BassOnBeatsZeroAndTwo ==
    Composed =>
        \A t \in Tracks :
            t.name = "Bass" =>
                /\ Len(t.events) >= song.measures
                /\ Len(t.events) <= 2 * song.measures
                /\ \A m \in 0..(song.measures - 1) :
                      /\ Cardinality(EventsAt(t, m * MeasureDuration)) = 1
                      /\ Cardinality(EventsAt(t, m * MeasureDuration + 2 * Beat)) <= 1
                /\ \A i \in DOMAIN t.events :
                      LET e      == t.events[i]
                          m      == e.startTime \div MeasureDuration
                          degree == At(ChordProgression, m % Len(ChordProgression))
                      IN  /\ m < song.measures
                          /\ e.startTime % MeasureDuration \in {0, 2 * Beat}
                          /\ e.duration = Beat
                          /\ degree < Len(ScaleNotes)
                          /\ e.frequency = PitchAt(At(ScaleNotes, degree), 2)

\* The index in the scale of the pitch class of a melody event (octave 5).
DegreeOf(event) ==
    CHOOSE d \in 0..(Len(ScaleNotes) - 1) :
        event.frequency = PitchAt(At(ScaleNotes, d), 5)

Distance(a, b) == IF a >= b THEN a - b ELSE b - a

\* C26: for each of the nine recognized genre tags the melody walk of
\* generateSong uses the balanced step function: every melody note is a note
\* of the scale, consecutive notes are at most one scale degree apart, and a
\* song of the melody alone has the track that the style "balanced" gives.
C26_GenreMelodyIsBalanced ==
    (Composed /\ params.genre \in getAvailableGenres) =>
        \A t \in Tracks :
            t.name = "Melody" =>
                /\ \A i \in DOMAIN t.events :
                      \E d \in 0..(Len(ScaleNotes) - 1) :
                          t.events[i].frequency = PitchAt(At(ScaleNotes, d), 5)
                /\ \A i \in 1..(Len(t.events) - 1) :
                      Distance(DegreeOf(t.events[i]), DegreeOf(t.events[i + 1])) <= 1
                /\ params.instruments = {"melody"} =>
                      t = generateMelodyTrack(ScaleNotes, song.measures, Beat,
                                              "balanced", randomSource, 0).track

\* A melody composed for the genre tag jazz has stepped up one degree and
\* down one degree.
C26_JazzMelodyStepsBothWays ==
    /\ Composed
    /\ params.genre = "jazz"
    /\ \E t \in Tracks :
          /\ t.name = "Melody"
          /\ \E i \in 1..(Len(t.events) - 1) :
                DegreeOf(t.events[i + 1]) = DegreeOf(t.events[i]) + 1
          /\ \E i \in 1..(Len(t.events) - 1) :
                DegreeOf(t.events[i + 1]) = DegreeOf(t.events[i]) - 1

(***************************************************************************)
(* Properties of the scheduler, checked under Spec.                        *)
(***************************************************************************)
Handles == DOMAIN sources

PlaySources(p) == {h \in Handles : sources[h].play = p}

Scheduled(p) == p \in DOMAIN plays /\ plays[p].pc = "scheduled"

\* playSong hands the events of a track to the sink in the order they are
\* listed: of two sources of one play and one track, the one created first
\* renders the event listed first.
HandedInListOrder ==
    \A g \in Handles : \A h \in Handles :
        (g < h /\ sources[g].play = sources[h].play
               /\ sources[g].track = sources[h].track)
            => sources[g].index < sources[h].index

\* C3 as stated: within every track of a composed song (drums included) the
\* events are listed in non-decreasing startTime order, and playSong hands
\* each track's events to the sink in that order.
C3_EveryTrackNonDecreasing ==
    /\ Composed => \A t \in Tracks : NonDecreasing(t.events)
    /\ HandedInListOrder

\* C3 amended: within the piano, bass and melody tracks of a composed song
\* the events are listed in non-decreasing startTime order, and playSong
\* hands the events of every track to the sink in the order they are listed.
C3_NoteTracksNonDecreasing ==
    /\ Composed =>
          \A t \in Tracks : t.name \in NoteTracks => NonDecreasing(t.events)
    /\ \A p \in DOMAIN plays :
          \A t \in Range(plays[p].song.tracks) :
              t.name \in NoteTracks => NonDecreasing(t.events)
    /\ HandedInListOrder

\* A play has handed a note track of two events or more to the sink.
C3_NoteTrackScheduled ==
    \E p \in DOMAIN plays :
        /\ Scheduled(p)
        /\ \E h \in PlaySources(p) :
              /\ plays[p].song.tracks[sources[h].track].name \in NoteTracks
              /\ sources[h].index >= 2

\* C6: stop() never throws, and when it returns the active set is empty and
\* isPlaying is false (lastStop is the outcome of the stop() call that was
\* the last step).
C6_StopReturnsClean ==
    /\ lastStop # "threw"
    /\ lastStop = "returned" => (activeSources = {} /\ isPlaying = FALSE)

\* stop() has just returned from a call in which stopping the tracked
\* handles raised errors.
C6_StopSwallowedErrors ==
    /\ lastStop = "returned"
    /\ \E h \in Handles : sources[h].state = "stopFailed"

\* Each event of the song of a scheduled play has exactly one source, started
\* at the play's startTime + event.startTime, the startTime being the clock
\* reading plus the lead-in.
ScheduledOnce ==
    \A p \in DOMAIN plays :
        Scheduled(p) =>
            /\ plays[p].startTime = plays[p].readAt + LeadIn
            /\ \A t \in DOMAIN plays[p].song.tracks :
                  \A i \in DOMAIN plays[p].song.tracks[t].events :
                      Cardinality({h \in PlaySources(p) :
                                      /\ sources[h].track = t
                                      /\ sources[h].index = i}) = 1
            /\ \A h \in PlaySources(p) :
                  /\ sources[h].track \in DOMAIN plays[p].song.tracks
                  /\ sources[h].index
                        \in DOMAIN plays[p].song.tracks[sources[h].track].events
                  /\ sources[h].when =
                        plays[p].startTime
                            + plays[p].song.tracks[sources[h].track]
                                  .events[sources[h].index].startTime

\* The handles a step creates are in the active set after the step.
NewHandlesActive ==
    \A h \in DOMAIN sources' : h \notin Handles => h \in activeSources'

\* C7: playSong schedules every event of every track exactly once, at
\* songStartTime + event.startTime with songStartTime the sink clock at play
\* start plus the lead-in, and every handle it gets is in the active set
\* right after it is scheduled.
C7_EveryEventScheduledOnce == [] ScheduledOnce /\ [][NewHandlesActive]_vars

\* A play that read a sink clock past 0 has scheduled its events and all its
\* handles are active.
C7_LaterPlayScheduled ==
    \E p \in DOMAIN plays :
        /\ Scheduled(p)
        /\ plays[p].readAt > 0
        /\ Cardinality(PlaySources(p)) >= 2
        /\ PlaySources(p) \subseteq activeSources

\* The handles that were scheduled and have neither ended nor been cleared by
\* stop(): a source is "started" from its scheduling until onended runs or
\* stop() clears it ("stopped", "stopFailed").
Uncleared == {h \in Handles : sources[h].state = "started"}

\* The handles whose onended runs in the step.
Ending == {h \in Handles : sources[h].state # "ended" /\ sources'[h].state = "ended"}

\* C8: the active set holds exactly the handles scheduled and neither ended
\* nor cleared by stop(), and the end callbacks of a step remove their own
\* handles only, also when they run after a stop() and a later playSong.
C8_ActiveSetExact ==
    /\ [] (activeSources = Uncleared)
    /\ [][Ending # {} => activeSources' = activeSources \ Ending]_vars

\* The end callback of a source that stop() stopped ran while sources of a
\* later play were active, and they are active still.
C8_LateEndCallback ==
    \E h \in Handles :
        /\ sources[h].state = "ended"
        /\ sources[h].late
        /\ \E g \in activeSources : g > h

\* Every source belongs to a play whose initialization has completed.
NothingBeforeInit == \A h \in Handles : Scheduled(sources[h].play)

\* A step that creates sources leaves the context running.
SchedulesWhenRunning ==
    Len(sources') > Len(sources) => audioContext' = "running"

\* The plays that a step leaves short of scheduling: those it starts and
\* leaves awaiting or failed, and those it fails.
HeldBack ==
    {p \in DOMAIN plays' :
        /\ plays'[p].pc \in {"init", "failed"}
        /\ p \in DOMAIN plays => plays[p].pc # plays'[p].pc}

\* A step of a play that is awaiting or has failed schedules nothing and
\* leaves isPlaying and the active set alone, and a failed play stays failed.
FailureChangesNothing ==
    /\ HeldBack # {} => UNCHANGED <<isPlaying, activeSources, sources>>
    /\ \A p \in DOMAIN plays :
          plays[p].pc = "failed" => plays'[p].pc = "failed"

\* C9: playSong schedules nothing before the sink's initialization has
\* completed, and when initialization fails the call is rejected, nothing is
\* scheduled, and isPlaying and the active set are left unchanged.
C9_NothingBeforeInit ==
    /\ [] NothingBeforeInit
    /\ [][SchedulesWhenRunning /\ FailureChangesNothing]_vars

\* One play failed in initialization and a later one has scheduled its events.
C9_FailedThenScheduled ==
    \E p \in DOMAIN plays : \E q \in DOMAIN plays :
        /\ plays[p].pc = "failed"
        /\ Scheduled(q)
        /\ PlaySources(q) # {}

\* C10 (safety half): after playSong has scheduled and while stop() is not
\* called, isPlaying is true while the play's timer is armed, and false once
\* it has fired unless a later play has started.
C10_PlayingUntilOwnTimer ==
    \A p \in DOMAIN plays :
        (Scheduled(p) /\ ~plays[p].stopped) =>
            /\ plays[p].timer = "armed" => isPlaying
            /\ (plays[p].timer = "fired"
                    /\ \A q \in DOMAIN plays : q > p => ~Scheduled(q))
                  => ~isPlaying

\* The timer of play p fires in the step and clears isPlaying.
TimerClears(p) ==
    /\ plays[p].timer = "armed"
    /\ plays'[p].timer = "fired"
    /\ isPlaying
    /\ ~isPlaying'

\* Play q is scheduled and within its totalDuration: its timer is armed.
Within(q) == Scheduled(q) /\ plays[q].timer = "armed"

\* C21: isPlaying turns false during a playback only through stop() or
\* through the timer armed by that same play call: the timer of an earlier
\* play never clears isPlaying while a later play is within its
\* totalDuration.
C21_OnlyOwnTimerClears ==
    [][\A p \in DOMAIN plays :
          TimerClears(p) => ~\E q \in DOMAIN plays : q > p /\ Within(q)]_vars

\* stop() was called after every playSong call made so far, and no play call
\* has resumed from its await since.
StoppedSinceLastPlay ==
    plays # <<>> /\ \A p \in DOMAIN plays : plays[p].stopped

\* C22: once stop() has returned and no playSong is called afterwards, the
\* active set stays empty and isPlaying stays false, also when stop() ran
\* while an earlier playSong was awaiting the sink's initialization: a step
\* that is not a playSong call leaves the engine stopped.
C22_StoppedStaysStopped ==
    [][(StoppedSinceLastPlay /\ Len(plays') = Len(plays))
          => (activeSources' = {} /\ ~isPlaying')]_vars

\* The song variable and the songs held by the play calls and by
\* currentSequence are the same values after a step of the scheduler as
\* before: a play call holds the song it was given, currentSequence changes
\* only to the song of a play call.
SongKept ==
    /\ engineVars' # engineVars => song' = song
    /\ \A p \in DOMAIN plays' :
          plays'[p].song = IF p \in DOMAIN plays THEN plays[p].song ELSE song
    /\ currentSequence' # currentSequence
          => \E p \in DOMAIN plays' : currentSequence' = plays'[p].song

\* C30: no step of the scheduler (playSong, scheduling an event, stop(), the
\* end-of-song timer, a sound ending) changes the song passed to playSong:
\* bpm, totalDuration, measures, tracks and every event field stay the same.
C30_SongNotMutated == [][SongKept]_vars

\* A song with events has been played, stopped, its timer has fired and a
\* sound of it has ended, and the play call still holds the song as composed.
C30_PlayedSongIntact ==
    \E p \in DOMAIN plays :
        /\ Scheduled(p)
        /\ plays[p].stopped
        /\ plays[p].timer = "fired"
        /\ \E h \in PlaySources(p) : sources[h].state = "ended"
        /\ plays[p].song = generateSong(params, randomSource)

(***************************************************************************)
(* The functions of the services, one call each: the arguments are drawn   *)
(* from bounded sets and the action of the function applies it.            *)
(***************************************************************************)
\* Longest melody asked of generateMelody.
MaxLength == 4

\* The scales handed to generateMelody: those getScale builds, and one of a
\* single note.
TheoryScales ==
    {getScale(k, t) : k \in ComposeKeys, t \in ScaleTypes} \cup {<<7>>}

\* The melody styles and one that is not.
TheoryStyles == MelodyStyles \cup {"swing"}

generateMelodyCalls ==
    [fn : {"generateMelody"}, scale : TheoryScales, length : 0..MaxLength,
     style : TheoryStyles, tape : Tapes]

CallGenerateMelody ==
    /\ call.fn = "generateMelody"
    /\ result = Pending
    /\ result' = Returned(generateMelody(call.scale, call.length, call.style,
                                         call.tape, 0))
    /\ UNCHANGED <<library, call, params, randomSource, song>>
    /\ UNCHANGED engineVars

\* Names that every object literal inherits from Object.prototype as
\* functions: obj[name] is a function, not undefined, although obj has no
\* such key of its own.
InheritedNames == {"constructor", "toString"}

\* A call returned obj[name] for an inherited name: a function, no array.
ReturnedFunction(name) ==
    [outcome |-> "returned a function", error |-> "", value |-> <<name>>]

\* Most measures asked of getDrumPattern.
MaxMeasures == 3

\* getScale(root, scaleType) for a recognized root and any scale type:
\* scales[scaleType] is undefined or an inherited function, neither has a
\* map method, and line 18 throws a TypeError.
getScaleCall(root, scaleType) ==
    IF scaleType \in ScaleTypes
    THEN Returned(getScale(root, scaleType))
    ELSE Threw("TypeError")

\* The scale types and two that are not.
TheoryScaleTypes == ScaleTypes \cup {"chromatic", "constructor"}

getScaleCalls ==
    [fn : {"getScale"}, root : KeyNames, scaleType : TheoryScaleTypes]

CallGetScale ==
    /\ call.fn = "getScale"
    /\ result = Pending
    /\ result' = getScaleCall(call.root, call.scaleType)
    /\ UNCHANGED <<library, call, params, randomSource, song>>
    /\ UNCHANGED engineVars

\* generateChordProgression(scale, progressionType) for any tag:
\* `progressions[progressionType] || progressions.pop` (line 30) is the
\* inherited function for an inherited name.
generateChordProgressionCall(scale, progressionType) ==
    IF progressionType \in InheritedNames
    THEN ReturnedFunction(progressionType)
    ELSE Returned(generateChordProgression(scale, progressionType))

TheoryProgressionTags == ProgressionTags \cup {"classical", "constructor"}

generateChordProgressionCalls ==
    [fn : {"generateChordProgression"}, scale : TheoryScales,
     progressionType : TheoryProgressionTags]

CallGenerateChordProgression ==
    /\ call.fn = "generateChordProgression"
    /\ result = Pending
    /\ result' = generateChordProgressionCall(call.scale, call.progressionType)
    /\ UNCHANGED <<library, call, params, randomSource, song>>
    /\ UNCHANGED engineVars

\* getChordNotes(root, chordType, scale) for any chord type: for an
\* inherited name `intervals` (line 42) is a function, intervals.map is
\* undefined and line 43 throws a TypeError.
getChordNotesCall(root, chordType, scale) ==
    IF chordType \in InheritedNames
    THEN Threw("TypeError")
    ELSE Returned(getChordNotes(root, chordType, scale))

TheoryChordTypes == ChordTypes \cup {"power", "toString"}

\* Highest root degree asked of getChordNotes.
MaxRoot == 7

getChordNotesCalls ==
    [fn : {"getChordNotes"}, root : 0..MaxRoot, chordType : TheoryChordTypes,
     scale : TheoryScales]

CallGetChordNotes ==
    /\ call.fn = "getChordNotes"
    /\ result = Pending
    /\ result' = getChordNotesCall(call.root, call.chordType, call.scale)
    /\ UNCHANGED <<library, call, params, randomSource, song>>
    /\ UNCHANGED engineVars

\* getDrumPattern(style, measures) for any style: for an inherited name
\* `pattern` (line 113) is a function; pattern.kick is undefined, so the
\* extended voices (lines 124-128) are `measures` undefined elements each,
\* and for measures <= 1 the function itself is returned.
getDrumPatternCall(style, measures) ==
    IF style \in InheritedNames
    THEN IF measures > 1
         THEN Returned([kick  |-> [i \in 1..measures |-> Undefined],
                        snare |-> [i \in 1..measures |-> Undefined],
                        hihat |-> [i \in 1..measures |-> Undefined]])
         ELSE ReturnedFunction(style)
    ELSE Returned(getDrumPattern(style, measures))

\* The genre tags of the UI, one unknown tag and one inherited name.
TheoryGenres == getAvailableGenres \cup {"classical", "constructor"}

getDrumPatternCalls ==
    [fn : {"getDrumPattern"}, style : TheoryGenres, measures : 0..MaxMeasures]

CallGetDrumPattern ==
    /\ call.fn = "getDrumPattern"
    /\ result = Pending
    /\ result' = getDrumPatternCall(call.style, call.measures)
    /\ UNCHANGED <<library, call, params, randomSource, song>>
    /\ UNCHANGED engineVars

\* generateSong(params) for any scale type and genre, the instruments being
\* none or drums.  An unrecognized scale type throws in getScale (line 73).
\* For an inherited genre name generateDrumTrack gets what getDrumPattern
\* returned: the function, whose kick is undefined, so `drumPattern.length`
\* (line 185) throws a TypeError; or voices of undefined elements, which
\* hold no hit.
generateSongCall(p, tape) ==
    IF p.scale \notin ScaleTypes THEN Threw("TypeError")
    ELSE IF p.genre \in InheritedNames /\ "drums" \in p.instruments
    THEN IF TotalMeasures(p) > 1
         THEN Returned([bpm |-> p.bpm,
                        totalDuration |-> p.duration * 1000,
                        measures |-> TotalMeasures(p),
                        tracks |-> <<[name |-> "Drums", instrument |-> "drums",
                                      events |-> <<>>]>>])
         ELSE Threw("TypeError")
    ELSE Returned(generateSong(p, tape))

generateSongCalls ==
    [fn : {"generateSong"},
     params : [bpm : Tempos, key : {"C"},
               scale : {"major", "chromatic"},
               genre : {"pop", "classical", "constructor"},
               duration : 1..MaxDuration,
               instruments : {{}, {"drums"}}],
     tape : SchedTapes]

CallGenerateSong ==
    /\ call.fn = "generateSong"
    /\ result = Pending
    /\ result' = generateSongCall(call.params, call.tape)
    /\ UNCHANGED <<library, call, params, randomSource, song>>
    /\ UNCHANGED engineVars

\* Highest note number and octave asked of noteToFrequency.
MaxNote == 23

MaxOctave == 6

\* The reference pitch of noteToFrequency.
A4 == 440

\* A4 * Math.pow(2, semitonesFromA4 / 12) for a frequency that lies a whole
\* number of octaves above A4.
Hertz(frequency) == A4 * 2^(frequency.semis \div 12)

noteToFrequencyCalls ==
    [fn : {"noteToFrequency"}, note : 0..MaxNote, octave : 0..MaxOctave]

CallNoteToFrequency ==
    /\ call.fn = "noteToFrequency"
    /\ result = Pending
    /\ result' = Returned(noteToFrequency([def |-> TRUE, n |-> call.note],
                                          call.octave))
    /\ UNCHANGED <<library, call, params, randomSource, song>>
    /\ UNCHANGED engineVars

(***************************************************************************)
(* EnhancedSynthesis.  Times are in ms, the sustain level in tenths, the   *)
(* sample rate in samples per second.  An envelope sample is the fraction  *)
(* [num, den] (den > 0) that the code computes, before it is rounded to    *)
(* the 32 bits of the Float32Array.                                        *)
(***************************************************************************)
\* Math.floor(seconds * sampleRate)
Samples(ms, sampleRate) == (ms * sampleRate) \div 1000

Zero == [num |-> 0, den |-> 1]

\* The sample the four loops of generateADSR (lines 13-30) leave at index j:
\* the release loop writes last, then sustain, decay, attack; an index no
\* loop writes keeps the 0 the Float32Array was created with.
EnvelopeSample(j, attackSamples, decaySamples, sustainSamples, releaseSamples, totalSamples, sustain) ==
    IF j >= totalSamples - releaseSamples
    THEN [num |-> sustain * (releaseSamples - (j - (totalSamples - releaseSamples))),
          den |-> 10 * releaseSamples]
    ELSE IF j >= attackSamples + decaySamples
            /\ j < attackSamples + decaySamples + sustainSamples
    THEN [num |-> sustain, den |-> 10]
    ELSE IF j >= attackSamples /\ j < attackSamples + decaySamples
    THEN [num |-> 10 * decaySamples - (10 - sustain) * (j - attackSamples),
          den |-> 10 * decaySamples]
    ELSE IF j < attackSamples
    THEN [num |-> j, den |-> attackSamples]
    ELSE Zero

\* generateADSR(attack, decay, sustain, release, duration, sampleRate):
\* `new Float32Array(totalSamples)` throws a RangeError for a negative length.
generateADSR(attack, decay, sustain, release, duration, sampleRate) ==
    LET totalSamples   == Samples(duration, sampleRate)
        attackSamples  == Samples(attack, sampleRate)
        decaySamples   == Samples(decay, sampleRate)
        releaseSamples == Samples(release, sampleRate)
        sustainSamples == totalSamples - attackSamples - decaySamples
                              - releaseSamples
    IN  IF totalSamples < 0 THEN Threw("RangeError")
        ELSE Returned([i \in 1..totalSamples |->
                          EnvelopeSample(i - 1, attackSamples, decaySamples,
                                         sustainSamples, releaseSamples,
                                         totalSamples, sustain)])

\* The envelope tuple each melodic synthesis function passes to generateADSR
\* (lines 65, 92, 120, 148).
Envelopes(fn) ==
    CASE fn = "synthesizePiano" ->
            [attack |-> 10, decay |-> 300, sustain |-> 3, release |-> 800]
      [] fn = "synthesizeBass" ->
            [attack |-> 5, decay |-> 100, sustain |-> 7, release |-> 300]
      [] fn = "synthesizeElectricPiano" ->
            [attack |-> 10, decay |-> 500, sustain |-> 4, release |-> 1200]
      [] fn = "synthesizePad" ->
            [attack |-> 500, decay |-> 300, sustain |-> 8, release |-> 1000]

SynthesisFunctions ==
    {"synthesizePiano", "synthesizeBass", "synthesizeElectricPiano", "synthesizePad"}

\* The sample rates of the model.
SampleRates == {200}

\* The note durations generateSong emits at the tempos of the model, in ms:
\* the melody's 0.7 to 1 beat, the bass's beat, the piano's two beats.
NoteDurations == {350, 500, 700, 1000, 2000}

\* Envelope tuples besides those of the instruments: no attack, no decay.
OtherEnvelopes ==
    {[attack |-> 0, decay |-> 100, sustain |-> 5, release |-> 100],
     [attack |-> 100, decay |-> 0, sustain |-> 10, release |-> 0],
     [attack |-> 20, decay |-> 20, sustain |-> 0, release |-> 20]}

generateADSRCalls ==
    [fn : {"generateADSR"},
     envelope : {Envelopes(f) : f \in SynthesisFunctions} \cup OtherEnvelopes,
     duration : NoteDurations \cup {0, 100},
     sampleRate : SampleRates]

CallGenerateADSR ==
    /\ call.fn = "generateADSR"
    /\ result = Pending
    /\ result' = generateADSR(call.envelope.attack, call.envelope.decay,
                              call.envelope.sustain, call.envelope.release,
                              call.duration, call.sampleRate)
    /\ UNCHANGED <<library, call, params, randomSource, song>>
    /\ UNCHANGED engineVars

\* A frequency in Hz, or NaN.
Hz(f) == [nan |-> FALSE, hz |-> f]

NotANumber == [nan |-> TRUE, hz |-> 0]

\* synthesizePiano, synthesizeBass, synthesizeElectricPiano and synthesizePad
\* (frequency, duration, velocity, sampleRate): no argument is checked.  The
\* signal has Math.floor(duration * sampleRate) samples, each a sum of sines
\* of the frequency times velocity and envelope: NaN for a NaN frequency.
\* `new Float32Array(samples)` throws a RangeError for a negative length.
synthesize(fn, frequency, duration, velocity, sampleRate) ==
    LET samples  == Samples(duration, sampleRate)
        e        == Envelopes(fn)
        envelope == generateADSR(e.attack, e.decay, e.sustain, e.release,
                                 duration, sampleRate)
    IN  IF samples < 0 THEN Threw("RangeError")
        ELSE Returned([length |-> Len(envelope.value), nan |-> frequency.nan])

synthesizeCalls ==
    [fn : SynthesisFunctions,
     frequency : {NotANumber, Hz(-440), Hz(0), Hz(440)},
     duration : {-500, 0, 500},
     velocity : {0, 5000},
     sampleRate : SampleRates]

CallSynthesize ==
    /\ call.fn \in SynthesisFunctions
    /\ result = Pending
    /\ result' = synthesize(call.fn, call.frequency, call.duration,
                            call.velocity, call.sampleRate)
    /\ UNCHANGED <<library, call, params, randomSource, song>>
    /\ UNCHANGED engineVars

\* The synthesis function scheduleEvent picks for a note event (lines 264-297).
SynthesisOf(instrument) ==
    CASE instrument = "piano"         -> "synthesizePiano"
      [] instrument = "bass"          -> "synthesizeBass"
      [] instrument = "electricpiano" -> "synthesizeElectricPiano"
      [] instrument = "pad"           -> "synthesizePad"

\* scheduleEvent(event, startTime) for a note event: the synthesis function
\* runs, createAudioBuffer hands its samples to the sink, whose createBuffer
\* throws a NotSupportedError for a length of 0, and playBuffer starts a
\* source.  The value is the source handed to the sink.
scheduleEvent(event, startTime, sampleRate) ==
    LET audioData == synthesize(SynthesisOf(event.instrument), event.frequency,
                                event.duration, event.velocity, sampleRate)
    IN  IF audioData.outcome = "threw" THEN audioData
        ELSE IF audioData.value.length = 0 THEN Threw("NotSupportedError")
        ELSE Returned([when   |-> startTime + event.startTime,
                       volume |-> event.velocity,
                       buffer |-> audioData.value])

scheduleEventCalls ==
    [fn : {"scheduleEvent"},
     event : [type : {"note"}, instrument : NoteInstruments,
              frequency : {NotANumber, Hz(-440), Hz(0), Hz(440)},
              duration : {-500, 0, 500}, velocity : {5000},
              startTime : {0, 500}],
     startTime : {LeadIn},
     sampleRate : SampleRates]

CallScheduleEvent ==
    /\ call.fn = "scheduleEvent"
    /\ result = Pending
    /\ result' = scheduleEvent(call.event, call.startTime, call.sampleRate)
    /\ UNCHANGED <<library, call, params, randomSource, song>>
    /\ UNCHANGED engineVars

generateMelodyTrackCalls ==
    [fn : {"generateMelodyTrack"}, scale : TheoryScales,
     measures : 0..MaxMeasures, beatDuration : {BeatDuration([bpm |-> t]) : t \in Tempos},
     style : {"pop", "jazz"}, tape : Tapes]

CallGenerateMelodyTrack ==
    /\ call.fn = "generateMelodyTrack"
    /\ result = Pending
    /\ result' = Returned(generateMelodyTrack(call.scale, call.measures,
                                              call.beatDuration, call.style,
                                              call.tape, 0).track)
    /\ UNCHANGED <<library, call, params, randomSource, song>>
    /\ UNCHANGED engineVars

\* Longest rhythm asked of generateRhythm.
MaxSteps == 8

\* Densities and syncopations, in hundredths.
Chances == {0, 50, 100}

generateRhythmCalls ==
    [fn : {"generateRhythm"}, length : 0..MaxSteps, density : Chances,
     syncopation : Chances, tape : Tapes]

CallGenerateRhythm ==
    /\ call.fn = "generateRhythm"
    /\ result = Pending
    /\ result' = Returned(generateRhythm(call.length, call.density,
                                         call.syncopation, call.tape))
    /\ UNCHANGED <<library, call, params, randomSource, song>>
    /\ UNCHANGED engineVars

TheoryCalls ==
    generateMelodyCalls \cup getScaleCalls \cup generateChordProgressionCalls
        \cup getChordNotesCalls \cup getDrumPatternCalls \cup generateSongCalls
        \cup noteToFrequencyCalls \cup generateADSRCalls \cup synthesizeCalls
        \cup scheduleEventCalls \cup generateMelodyTrackCalls
        \cup generateRhythmCalls

InitTheory ==
    /\ params = NoParams
    /\ randomSource = NoTape
    /\ EngineInit
    /\ call \in TheoryCalls
    /\ result = Pending
    /\ library = NoLibrary

NextTheory ==
    \/ CallGenerateMelody
    \/ CallGetScale
    \/ CallGenerateChordProgression
    \/ CallGetChordNotes
    \/ CallGetDrumPattern
    \/ CallGenerateSong
    \/ CallNoteToFrequency
    \/ CallGenerateADSR
    \/ CallSynthesize
    \/ CallScheduleEvent
    \/ CallGenerateMelodyTrack
    \/ CallGenerateRhythm

SpecTheory == InitTheory /\ [][NextTheory]_vars

(***************************************************************************)
(* Properties of the single functions, checked under SpecTheory.           *)
(***************************************************************************)
Called(fn) == call.fn = fn /\ result.outcome # "pending"

\* C13: generateMelody(scale, length, style) returns exactly `length`
\* elements for every length >= 0, the first (when there is one) being
\* scale[floor(scale.length / 2)], and every element is a member of scale.
C13_MelodyHasLengthElements ==
    Called("generateMelody") =>
        /\ result.outcome = "returned"
        /\ Len(result.value) = call.length
        /\ Len(result.value) > 0 =>
              result.value[1] = Lookup(call.scale, Len(call.scale) \div 2)
        /\ \A i \in DOMAIN result.value :
              /\ result.value[i].def
              /\ result.value[i].n \in Range(call.scale)

Voices == {"kick", "snare", "hihat"}

\* C14: for every recognized genre and measures >= 1, each voice of
\* getDrumPattern(genre, measures) has measures * 16 steps, step i being
\* step (i mod 16) of the genre's single-measure pattern.
C14_DrumPatternTiled ==
    (Called("getDrumPattern") /\ call.style \in getAvailableGenres
                              /\ call.measures >= 1) =>
        LET single == patterns(IF call.style \in DrumStyles
                               THEN call.style ELSE "rock")
        IN  /\ result.outcome = "returned"
            /\ \A v \in Voices :
                  /\ Len(result.value[v]) = call.measures * 16
                  /\ \A i \in 0..(Len(result.value[v]) - 1) :
                        At(result.value[v], i) = At(single[v], i % 16)

\* getDrumPattern has tiled the funk pattern over two measures or more.
C14_FunkTiled ==
    /\ Called("getDrumPattern")
    /\ call.style = "funk"
    /\ call.measures >= 2

\* C15: for each accepted key name and each of the 5 scale types, getScale
\* returns len(template) pairwise distinct pitch classes in 0..11, element i
\* being (rootPitchClass + template[i]) mod 12; getScale('C', 'major') is
\* [0, 2, 4, 5, 7, 9, 11].
C15_ScaleOfDistinctPitchClasses ==
    (Called("getScale") /\ call.scaleType \in ScaleTypes) =>
        LET template == scales(call.scaleType)
            v        == result.value
        IN  /\ result.outcome = "returned"
            /\ Len(v) = Len(template)
            /\ \A i \in DOMAIN v :
                  /\ v[i] \in 0..11
                  /\ \E q \in 0..1 : v[i] + 12 * q = noteNumbers(call.root) + template[i]
            /\ \A i \in DOMAIN v : \A j \in DOMAIN v : i # j => v[i] # v[j]
            /\ (call.root = "C" /\ call.scaleType = "major")
                  => v = <<0, 2, 4, 5, 7, 9, 11>>

\* getScale has built a scale that wraps past pitch class 11.
C15_ScaleWraps ==
    /\ Called("getScale")
    /\ result.outcome = "returned"
    /\ \E i \in DOMAIN result.value : result.value[i] < noteNumbers(call.root)

\* C16: getScale with a scale type outside the five recognized ones fails
\* with the error kind UnknownScaleType and returns no scale, and
\* generateSong given such a scale type returns no song.
C16_UnknownScaleTypeError ==
    /\ (Called("getScale") /\ call.scaleType \notin ScaleTypes)
          => result = Threw("UnknownScaleType")
    /\ (Called("generateSong") /\ call.params.scale \notin ScaleTypes)
          => result.outcome = "threw"

\* C17: an unknown progression tag yields the pop progression, an unknown
\* chord type the triad template, an unknown drum genre the rock pattern,
\* an unknown melody style the balanced step function; none of the lookups
\* raises an error, and generateSong succeeds for any genre tag.
C17_UnknownTagsDefault ==
    /\ (Called("generateChordProgression")
            /\ call.progressionType \notin ProgressionTags)
          => /\ result.outcome = "returned"
             /\ result.value = progressions("pop")
    /\ (Called("getChordNotes") /\ call.chordType \notin ChordTypes)
          => /\ result.outcome = "returned"
             /\ result.value = getChordNotes(call.root, "triad", call.scale)
    /\ (Called("getDrumPattern") /\ call.style \notin DrumStyles)
          => /\ result.outcome = "returned"
             /\ \A v \in Voices :
                   /\ Len(result.value[v])
                         = Len(getDrumPattern("rock", call.measures)[v])
                   /\ result.value[v] = getDrumPattern("rock", call.measures)[v]
    /\ (Called("generateMelody") /\ call.style \notin MelodyStyles)
          => /\ result.outcome = "returned"
             /\ result.value = generateMelody(call.scale, call.length,
                                              "balanced", call.tape, 0)
    /\ (Called("generateSong") /\ call.params.scale \in ScaleTypes)
          => result.outcome = "returned"


\* A call of a melodic synthesis function that has finished.
Synthesized == call.fn \in SynthesisFunctions /\ result.outcome # "pending"

\* The frequency is not above 0 (NaN is not), or the duration is not.
NonPositive(frequency, duration) ==
    frequency.nan \/ frequency.hz <= 0 \/ duration <= 0

\* C18: a melodic synthesis function given a non-positive duration or a
\* non-positive frequency fails with InvalidEventParameters instead of
\* returning a buffer, and scheduleEvent hands no such event to the sink.
C18_InvalidParametersRejected ==
    /\ (Synthesized /\ NonPositive(call.frequency, call.duration))
           => result = Threw("InvalidEventParameters")
    /\ (Called("scheduleEvent")
            /\ NonPositive(call.event.frequency, call.event.duration))
           => result = Threw("InvalidEventParameters")

\* C19: generateADSR returns floor(total * sampleRate) samples, sample 0 is
\* 0, every sample of the sustain region (after attack and decay, before the
\* release) equals the sustain level, and every sample is >= 0, also when
\* attack + decay + release exceeds the total.
C19_EnvelopeShape ==
    Called("generateADSR") =>
        LET e              == call.envelope
            totalSamples   == Samples(call.duration, call.sampleRate)
            attackSamples  == Samples(e.attack, call.sampleRate)
            decaySamples   == Samples(e.decay, call.sampleRate)
            releaseSamples == Samples(e.release, call.sampleRate)
        IN  /\ result.outcome = "returned"
            /\ Len(result.value) = totalSamples
            /\ totalSamples > 0 => result.value[1].num = 0
            /\ \A j \in (attackSamples + decaySamples)
                            ..(totalSamples - releaseSamples - 1) :
                   result.value[j + 1].num * 10
                       = e.sustain * result.value[j + 1].den
            /\ \A i \in 1..Len(result.value) : result.value[i].num >= 0

\* C20: noteToFrequency(pitchClass, octave) is (octave + floor(pitchClass/12)
\* - 4) * 12 + (pitchClass mod 12 - 9) semitones from A4: (9, 4) is 0
\* semitones and 440 Hz, one octave more is exactly 12 semitones more and
\* twice the frequency, and (9, 5) is 880 Hz.
C20_SemitonesFromA4 ==
    Called("noteToFrequency") =>
        LET above == noteToFrequency([def |-> TRUE, n |-> call.note],
                                     call.octave + 1)
        IN  /\ result.outcome = "returned"
            /\ ~result.value.nan
            /\ result.value.semis
                   = (call.octave + (call.note \div 12) - 4) * 12
                         + ((call.note % 12) - 9)
            /\ above.semis = result.value.semis + 12
            /\ (call.note = 9 /\ call.octave = 4)
                   => result.value.semis = 0 /\ Hertz(result.value) = 440
            /\ (call.note = 9 /\ call.octave = 5)
                   => Hertz(result.value) = 880
            /\ (call.note % 12 = 9 /\ result.value.semis >= 0)
                   => Hertz(above) = 2 * Hertz(result.value)

\* A note above the first octave, asked for in octave 5, has been converted.
C20_NoteOfSecondOctave ==
    /\ Called("noteToFrequency")
    /\ call.note = 21
    /\ call.octave = 5
    /\ result.value.semis = 24

\* C25: the melody track holds exactly measureCount * 4 events for every
\* measureCount >= 0 (none when measureCount is 0), the i-th at startTime
\* i * beatDuration, each at octave 5 with a duration of at most one beat.
C25_MelodyFourEventsPerMeasure ==
    Called("generateMelodyTrack") =>
        LET events == result.value.events
        IN  /\ Len(events) = call.measures * 4
            /\ \A e \in DOMAIN events :
                  /\ events[e].startTime = (e - 1) * call.beatDuration
                  /\ events[e].duration <= call.beatDuration
                  /\ \E d \in 0..(Len(call.scale) - 1) :
                        events[e].frequency = PitchAt(At(call.scale, d), 5)

\* C28: getChordNotes(rootDegree, chordType, scale) returns, for every root
\* degree >= 0, every chord type and every scale, one pitch class per
\* interval of the chord template, each equal to
\* scale[(rootDegree + interval) mod scale.length] and so a member of scale.
C28_ChordNotesFromScale ==
    (Called("getChordNotes") /\ call.chordType \in ChordTypes) =>
        LET intervals == chordTypes(call.chordType)
        IN  /\ result.outcome = "returned"
            /\ Len(result.value) = Len(intervals)
            /\ \A j \in DOMAIN intervals :
                  /\ result.value[j].def
                  /\ result.value[j].n
                        = At(call.scale, (call.root + intervals[j]) % Len(call.scale))
                  /\ result.value[j].n \in Range(call.scale)

\* A ninth chord on a degree above the scale's last has been resolved.
C28_NinthChordWraps ==
    /\ Called("getChordNotes")
    /\ call.chordType = "ninth"
    /\ call.root >= Len(call.scale)
    /\ Len(call.scale) = 5
    /\ Len(result.value) = 5

\* C29: generateRhythm(length, density, syncopation) returns `length` steps,
\* each 0 or 1; an odd step is a hit only through the syncopation chance and
\* an even step only through the downbeat or density chance: with
\* syncopation 0 no odd step is a hit, and with density 0 no even step other
\* than a multiple of 4 is a hit.
C29_RhythmChances ==
    Called("generateRhythm") =>
        /\ Len(result.value) = call.length
        /\ \A e \in DOMAIN result.value :
              /\ result.value[e] \in {0, 1}
              /\ (call.syncopation = 0 /\ (e - 1) % 2 = 1) => result.value[e] = 0
              /\ (call.density = 0 /\ (e - 1) % 2 = 0 /\ (e - 1) % 4 # 0)
                    => result.value[e] = 0

====
